---- MODULE Spec2Model ----
(***************************************************************************)
(* Model of src/src/binance_fetcher/binance_fetcher.py: the candlestick    *)
(* cache of one (symbol, timeframe) key, the exchange's kline series for   *)
(* that key, and fetch_candlestick_data requests run against them.         *)
(*                                                                         *)
(* Time is counted in ticks of one minute.  Request instants and candle    *)
(* open-times are whole ticks, so "one millisecond past the last accepted  *)
(* record" (line 63) selects the same records as "one tick past" it.       *)
(* A candle's five values (open, high, low, close, volume) are one         *)
(* abstract value 1..NumVals; two rows have equal columns iff their        *)
(* abstract values are equal.                                              *)
(***************************************************************************)
EXTENDS Integers, Sequences, FiniteSets, TLC

MaxT == 3
PageSize == 2
NumVals == 3

limit == 1000
HourTicks == 60
DayTicks == 1440

Instants == 0..MaxT
Vals == 1..NumVals

\* Timeframe labels are strings, modelled as sequences of characters.
Timeframes == { <<"1", "m">>, <<"3", "m">>, <<"1", "h">>, <<"1", "d">> }

Min(a, b) == IF a <= b THEN a ELSE b

Last(s) == s[Len(s)]

----------------------------------------------------------------------------
(* Strings and pandas frequencies *)

Digits == {"0", "1", "2", "3", "4", "5", "6", "7", "8", "9"}

DigitVal(c) ==
  CASE c = "0" -> 0 [] c = "1" -> 1 [] c = "2" -> 2 [] c = "3" -> 3
    [] c = "4" -> 4 [] c = "5" -> 5 [] c = "6" -> 6 [] c = "7" -> 7
    [] c = "8" -> 8 [] c = "9" -> 9

\* 'c' in s
Contains(s, c) == \E i \in 1..Len(s) : s[i] = c

\* s.replace(c, '')
Remove(s, c) == LET Keep(x) == x # c IN SelectSeq(s, Keep)

\* int(s) for a string of decimal digits
RECURSIVE int(_)
int(s) == IF s = <<>> THEN 0 ELSE 10 * int(SubSeq(s, 1, Len(s) - 1)) + DigitVal(Last(s))

\* str(n) for 0 <= n <= 99
str(n) ==
  LET d(k) == CHOOSE c \in Digits : DigitVal(c) = k
  IN IF n < 10 THEN <<d(n)>> ELSE <<d(n \div 10), d(n % 10)>>

\* The value None, and a string value, of an optional frequency string.
None == [none |-> TRUE, chars |-> <<>>]
Some(s) == [none |-> FALSE, chars |-> s]

\* _timeframe_to_pandas_freq: "<N>m" -> "<N>min", a label with an 'h' is
\* returned as it is, anything else gives None.
timeframe_to_pandas_freq(tf_str) ==
  IF Contains(tf_str, "m")
    THEN Some(str(int(Remove(tf_str, "m"))) \o <<"m", "i", "n">>)
    ELSE IF Contains(tf_str, "h") THEN Some(tf_str) ELSE None

\* Leading digits of a frequency string, and what follows them.
RECURSIVE DigitPrefixLen(_)
DigitPrefixLen(s) ==
  IF s # <<>> /\ s[1] \in Digits THEN 1 + DigitPrefixLen(Tail(s)) ELSE 0

\* pandas.tseries.frequencies.to_offset on "<N>min" and "<N>h", in ticks.
to_offset(chars) ==
  LET k == DigitPrefixLen(chars)
      n == int(SubSeq(chars, 1, k))
      unit == SubSeq(chars, k + 1, Len(chars))
  IN IF unit = <<"m", "i", "n">> THEN n ELSE n * HourTicks

\* The step pandas.date_range and DataFrame.asfreq use for freq: with start
\* and end given and freq=None, date_range falls back to freq="D".
StepOf(freq) == IF freq.none THEN DayTicks ELSE to_offset(freq.chars)

\* pd.date_range(start=start, end=end, freq=freq, tz='UTC')
date_range(start, end, freq) ==
  LET step == StepOf(freq)
      n == IF end < start THEN 0 ELSE (end - start) \div step + 1
  IN [i \in 1..n |-> start + (i - 1) * step]

----------------------------------------------------------------------------
(* Data frames: sequences of rows [timestamp, ohlcv] *)

Row(t, v) == [timestamp |-> t, ohlcv |-> v]

Index(df) == {df[i].timestamp : i \in 1..Len(df)}

\* The slice with the start bound exclusive.
RangeRowsOpenStart(df, start_time, end_time) ==
  LET In(r) == r.timestamp > start_time /\ r.timestamp <= end_time
  IN SelectSeq(df, In)

\* The slice with the end bound exclusive.
RangeRowsOpenEnd(df, start_time, end_time) ==
  LET In(r) == r.timestamp >= start_time /\ r.timestamp < end_time
  IN SelectSeq(df, In)

\* df[(df.index >= start_time) & (df.index <= end_time)]
RangeRows(df, start_time, end_time) ==
  LET In(r) == r.timestamp >= start_time /\ r.timestamp <= end_time
  IN SelectSeq(df, In)

\* Insert r after the rows whose timestamp is not later (stable).
RECURSIVE InsertRow(_, _)
InsertRow(df, r) ==
  IF df = <<>> THEN <<r>>
  ELSE IF Last(df).timestamp <= r.timestamp THEN Append(df, r)
  ELSE Append(InsertRow(SubSeq(df, 1, Len(df) - 1), r), Last(df))

\* The frame left in concatenation order.
sort_index_unsorted(df) == df

\* DataFrame.sort_index()
RECURSIVE sort_index(_)
sort_index(df) ==
  IF df = <<>> THEN <<>>
  ELSE InsertRow(sort_index(SubSeq(df, 1, Len(df) - 1)), Last(df))

\* DataFrame.drop_duplicates(): keeps the first of the rows whose COLUMNS
\* are equal; the index (timestamp) is not looked at.
drop_duplicates(df) ==
  LET idx == {i \in 1..Len(df) : \A j \in 1..(i - 1) : df[j].ohlcv # df[i].ohlcv}
      RECURSIVE Pick(_)
      Pick(i) == IF i > Len(df) THEN <<>>
                 ELSE IF i \in idx THEN <<df[i]>> \o Pick(i + 1) ELSE Pick(i + 1)
  IN Pick(1)

\* pd.concat([main_cache, new_data]).sort_index().drop_duplicates()
Merge(main_cache, new_data) == drop_duplicates(sort_index(main_cache \o new_data))

\* new_df.asfreq(freq, method='ffill'): reindex on
\* date_range(index.min(), index.max(), freq), each slot taking the values of
\* the last row at or before it.
asfreq(df, freq) ==
  LET lo == df[1].timestamp
      hi == Last(df).timestamp
      grid == date_range(lo, hi, freq)
      Prior(g) == CHOOSE i \in 1..Len(df) :
                    /\ df[i].timestamp <= g
                    /\ \A j \in 1..Len(df) : df[j].timestamp <= g => j <= i
  IN [k \in 1..Len(grid) |-> Row(grid[k], df[Prior(grid[k])].ohlcv)]

\* An optional data frame: the value None, or a frame.
NoneDF == [none |-> TRUE, rows |-> <<>>]
SomeDF(df) == [none |-> FALSE, rows |-> df]

\* Lines 69-81: the frame built from the accepted candles; the function
\* falls off its end, returning None, when no candle was accepted.
PostProcess(all_candles, timeframe) ==
  IF all_candles # <<>>
    THEN SomeDF(asfreq(all_candles, timeframe_to_pandas_freq(timeframe)))
    ELSE NoneDF

\* The accepted candles returned as a frame in spite of the failure.
FailedResultPartial(all_candles, timeframe) == PostProcess(all_candles, timeframe)

\* Line 67: a non-200 response returns None, whatever was accepted so far.
FailedResult(all_candles, timeframe) == NoneDF

----------------------------------------------------------------------------
(* The exchange: GET /api/v3/klines?symbol=..&interval=..&startTime=..&limit=1000 *)

\* The exchange's own candle interval for a label, in ticks.
KlineInterval(tf) ==
  CASE tf = <<"1", "m">> -> 1
    [] tf = <<"3", "m">> -> 3
    [] tf = <<"1", "h">> -> HourTicks
    [] tf = <<"1", "d">> -> DayTicks

\* Open-times at which the exchange may hold a candle of that interval.
KlineSlots(tf) == {t \in Instants : t % KlineInterval(tf) = 0}

\* The ascending sequence of the elements of a finite set of integers.
RECURSIVE Ascending(_)
Ascending(S) ==
  IF S = {} THEN <<>>
  ELSE LET m == CHOOSE x \in S : \A y \in S : x <= y
       IN <<m>> \o Ascending(S \ {m})

\* The body of a 200 response: the candles with open-time >= startTime, in
\* ascending order, at most limit of them and at most the provider's page cap.
Page(series, startTime) ==
  LET ts == Ascending({t \in DOMAIN series : series[t] # 0 /\ t >= startTime})
      n == Min(Len(ts), Min(limit, PageSize))
  IN [i \in 1..n |-> Row(ts[i], series[ts[i]])]

----------------------------------------------------------------------------
(* State *)

VARIABLES
  timeframe,    \* the timeframe label of the cache key
  klines,       \* the exchange's series: open-time -> value, 0 for no candle
  cache_file,   \* the parquet file of the key: whether it exists, its rows
  req,          \* the fetch_candlestick_data call in progress or just finished
  req2          \* a call made by a second process on the same key

vars == <<timeframe, klines, cache_file, req, req2>>

NoFile == [exists |-> FALSE, rows |-> <<>>]

IdleReq ==
  [pc |-> "idle", start_time |-> 0, end_time |-> 0, path |-> "none",
   main_cache |-> <<>>, gaps |-> <<>>, gi |-> 0, dl |-> <<>>,
   current_fetch_start |-> 0, all_candles |-> <<>>, result |-> <<>>,
   pages |-> 0, writes |-> 0, downloads |-> <<>>, failed |-> <<>>,
   fetched |-> <<>>, before |-> NoFile, repeat |-> FALSE,
   accepted |-> <<>>, returned |-> NoneDF]

\* Fields of req beyond the code's own locals: pages counts the page
\* requests answered, writes the to_parquet calls, downloads lists the
\* ranges _download_candlestick_data was called with, failed those of them
\* that returned on a non-200 response, fetched the rows the downloads
\* returned, before is the cache file as the call found it, repeat tells
\* that the call before this one had the same arguments and returned with
\* no failed download, accepted is all_candles as the download that
\* finished last left it and returned is what that download returned.

----------------------------------------------------------------------------
(* fetch_candlestick_data, lines 109-134: gap detection *)

\* requested_range.difference(requested_data.index), ascending
Missing(requested_range, requested_data) ==
  LET Absent(t) == t \notin Index(requested_data)
  IN SelectSeq(requested_range, Absent)

\* pd.Timedelta(freq=<frequency string or None>), line 128: Timedelta takes
\* a value, or the keywords weeks, days, hours, minutes, seconds,
\* milliseconds, microseconds, nanoseconds with numeric values.  Called
\* with the single keyword freq and a string (or None) it raises.
Timedelta(freq) == [raised |-> TRUE, ticks |-> 0]

\* The loop of lines 127-133 from index i on (i is 0-based as in the code,
\* missing_timestamps[i] is missing[i + 1] here), then line 134.
RECURSIVE GapLoop(_, _, _, _, _, _)
GapLoop(missing, i, start_gap, end_gap, gaps, freq) ==
  IF i >= Len(missing)
    THEN [raised |-> FALSE, gaps |-> Append(gaps, <<start_gap, end_gap>>)]
    ELSE LET td == Timedelta(freq)
         IN IF td.raised THEN [raised |-> TRUE, gaps |-> <<>>]
            ELSE IF missing[i + 1] = end_gap + td.ticks
              THEN GapLoop(missing, i + 1, start_gap, missing[i + 1], gaps, freq)
              ELSE GapLoop(missing, i + 1, missing[i + 1], missing[i + 1],
                           Append(gaps, <<start_gap, end_gap>>), freq)

\* Lines 123-134, for a non-empty missing_timestamps.
FindGaps(missing, tf) ==
  GapLoop(missing, 1, missing[1], missing[1], <<>>, timeframe_to_pandas_freq(tf))

----------------------------------------------------------------------------
(* One call of fetch_candlestick_data *)

\* Lines 38-46: _download_candlestick_data entered for [start, end].
EnterDownload(r, start, end) ==
  [r EXCEPT !.pc = "download", !.dl = <<start, end>>,
            !.current_fetch_start = start, !.all_candles = <<>>,
            !.downloads = Append(@, <<start, end>>)]

\* Lines 101-134 and, with no cache file, 143-145: up to the first page
\* request, the return of a full cache hit, or an exception.
BeginRequest(f, tf, start_time, end_time) ==
  LET r0 == [IdleReq EXCEPT !.start_time = start_time, !.end_time = end_time,
                            !.before = f]
  IN IF f.exists
       THEN LET main_cache == f.rows
                requested_data == RangeRows(main_cache, start_time, end_time)
                requested_range ==
                  date_range(start_time, end_time, timeframe_to_pandas_freq(tf))
                missing_timestamps == Missing(requested_range, requested_data)
            IN IF missing_timestamps = <<>>
                 THEN [r0 EXCEPT !.pc = "done", !.path = "hit",
                                 !.result = requested_data]
                 ELSE LET g == FindGaps(missing_timestamps, tf)
                          r1 == [r0 EXCEPT !.path = "gaps",
                                           !.main_cache = main_cache]
                      IN IF g.raised
                           THEN [r1 EXCEPT !.pc = "raised", !.main_cache = <<>>]
                           ELSE EnterDownload([r1 EXCEPT !.gaps = g.gaps, !.gi = 1],
                                              g.gaps[1][1], g.gaps[1][2])
       ELSE EnterDownload([r0 EXCEPT !.path = "nocache"], start_time, end_time)

\* Lines 138-142 and 146-150: the caller's use of what the download
\* returned, up to the next page request or the return.
AfterDownload(r, f, new_data) ==
  LET rf == [r EXCEPT !.all_candles = <<>>, !.current_fetch_start = 0, !.dl = <<>>,
                      !.returned = new_data]
  IN IF r.path = "gaps"
       THEN LET main_cache == IF ~new_data.none
                                THEN Merge(r.main_cache, new_data.rows)
                                ELSE r.main_cache
                rm == [rf EXCEPT !.main_cache = main_cache,
                             !.fetched = @ \o new_data.rows]
            IN IF r.gi < Len(r.gaps)
                 THEN [req |-> EnterDownload([rm EXCEPT !.gi = r.gi + 1],
                                             r.gaps[r.gi + 1][1], r.gaps[r.gi + 1][2]),
                       file |-> f]
                 ELSE [req |-> [rm EXCEPT !.pc = "done", !.writes = @ + 1,
                                          !.main_cache = <<>>,
                                          !.result = RangeRows(main_cache, r.start_time, r.end_time)],
                       file |-> [exists |-> TRUE, rows |-> main_cache]]
       ELSE IF ~new_data.none
              THEN [req |-> [rf EXCEPT !.pc = "done", !.writes = @ + 1,
                                       !.fetched = new_data.rows,
                                       !.result = new_data.rows],
                    file |-> [exists |-> TRUE, rows |-> new_data.rows]]
              ELSE [req |-> [rf EXCEPT !.pc = "done", !.result = <<>>],
                    file |-> f]

\* The cursor left on the last accepted record.
NextFetchStartSame(new_candles) == Last(new_candles).timestamp

\* The cursor moved two past the last accepted record.
NextFetchStartSkip(new_candles) == Last(new_candles).timestamp + 2

\* Line 63: current_fetch_start = new_candles[-1][0] + 1
NextFetchStart(new_candles) == Last(new_candles).timestamp + 1

\* Lines 52-65 and what follows the loop: a 200 response with body data.
OnSuccess(r, f, tf, data) ==
  LET end_ms == r.dl[2]
      Accept(candle) == candle.timestamp <= end_ms
      new_candles == SelectSeq(data, Accept)
      all_candles == r.all_candles \o new_candles
      rp == [r EXCEPT !.pages = @ + 1]
  IN IF data = <<>>
       THEN AfterDownload([rp EXCEPT !.accepted = r.all_candles], f,
                          PostProcess(r.all_candles, tf))
       ELSE IF new_candles = <<>> \/ Last(data).timestamp > end_ms
         THEN AfterDownload([rp EXCEPT !.accepted = all_candles], f,
                            PostProcess(all_candles, tf))
         ELSE [req |-> [rp EXCEPT !.all_candles = all_candles,
                                  !.current_fetch_start = NextFetchStart(new_candles)],
               file |-> f]

\* Lines 66-67: a response whose status is not 200.
OnFailure(r, f, tf) ==
  AfterDownload([r EXCEPT !.pages = @ + 1, !.failed = Append(@, r.dl),
                          !.accepted = r.all_candles], f,
                FailedResult(r.all_candles, tf))

----------------------------------------------------------------------------
(* Actions *)

Init ==
  /\ timeframe \in Timeframes
  /\ klines \in [KlineSlots(timeframe) -> 0..NumVals]
  /\ cache_file = NoFile
  /\ req = IdleReq
  /\ req2 = IdleReq

\* fetch_candlestick_data(symbol, timeframe, start_time, end_time) is called.
Call(start_time, end_time) ==
  /\ req.pc # "download"
  /\ req' = [BeginRequest(cache_file, timeframe, start_time, end_time)
               EXCEPT !.repeat = /\ req.pc = "done" /\ req.failed = <<>>
                                 /\ req.start_time = start_time
                                 /\ req.end_time = end_time]
  /\ UNCHANGED <<timeframe, klines, cache_file, req2>>

\* requests.get answers 200 with the page at current_fetch_start.
PageOK ==
  /\ req.pc = "download"
  /\ LET out == OnSuccess(req, cache_file, timeframe,
                          Page(klines, req.current_fetch_start))
     IN /\ req' = out.req
        /\ cache_file' = out.file
  /\ UNCHANGED <<timeframe, klines, req2>>

\* requests.get answers with a status other than 200.
PageFail ==
  /\ req.pc = "download"
  /\ LET out == OnFailure(req, cache_file, timeframe)
     IN /\ req' = out.req
        /\ cache_file' = out.file
  /\ UNCHANGED <<timeframe, klines, req2>>

Next ==
  \/ \E s \in Instants : \E e \in s..MaxT : Call(s, e)
  \/ PageOK
  \/ PageFail

Spec == Init /\ [][Next]_vars

----------------------------------------------------------------------------
(* Two processes calling fetch_candlestick_data on the same key.  The code *)
(* takes no lock: each call reads the file at line 110 (or finds none at   *)
(* line 109) and writes it at line 141 or 147, with its page requests in   *)
(* between.                                                                *)

\* The first call of the first process.
FirstCall(start_time, end_time) ==
  /\ req.pc = "idle"
  /\ Call(start_time, end_time)

\* The second process calls fetch_candlestick_data.
Call2(start_time, end_time) ==
  /\ req2.pc = "idle"
  /\ req2' = BeginRequest(cache_file, timeframe, start_time, end_time)
  /\ UNCHANGED <<timeframe, klines, cache_file, req>>

\* A page request of the second process is answered 200.
PageOK2 ==
  /\ req2.pc = "download"
  /\ LET out == OnSuccess(req2, cache_file, timeframe,
                          Page(klines, req2.current_fetch_start))
     IN /\ req2' = out.req
        /\ cache_file' = out.file
  /\ UNCHANGED <<timeframe, klines, req>>

\* A page request of the second process is answered with another status.
PageFail2 ==
  /\ req2.pc = "download"
  /\ LET out == OnFailure(req2, cache_file, timeframe)
     IN /\ req2' = out.req
        /\ cache_file' = out.file
  /\ UNCHANGED <<timeframe, klines, req>>

NextTwo ==
  \/ \E s \in Instants : \E e \in s..MaxT : FirstCall(s, e)
  \/ PageOK
  \/ PageFail
  \/ \E s \in Instants : \E e \in s..MaxT : Call2(s, e)
  \/ PageOK2
  \/ PageFail2

SpecTwo == Init /\ [][NextTwo]_vars

----------------------------------------------------------------------------
(* Vocabulary of the properties *)

\* The step of the key's timeframe and the grid of a requested range.
GridStep == KlineInterval(timeframe)
GridOf(start, end) == {t \in start..end : (t - start) % GridStep = 0}

Finished == req.pc \in {"done", "raised"}

RowSet(df) == {df[i] : i \in 1..Len(df)}

\* Number of rows of df stamped t.
CountAt(df, t) == Cardinality({i \in 1..Len(df) : df[i].timestamp = t})

\* The rows of df stamped within [a, b], in order.
Within(df, a, b) ==
  LET In(r) == a <= r.timestamp /\ r.timestamp <= b IN SelectSeq(df, In)

\* The grid timestamps of the request that the cache it found did not hold.
Absent == GridOf(req.start_time, req.end_time) \ Index(req.before.rows)

\* The maximal runs of consecutive absent grid timestamps, ascending.
GapSet ==
  {g \in Absent \X Absent :
     /\ g[1] <= g[2]
     /\ \A t \in GridOf(req.start_time, req.end_time) :
          g[1] <= t /\ t <= g[2] => t \in Absent
     /\ g[1] - GridStep \notin Absent
     /\ g[2] + GridStep \notin Absent}
GapSeq ==
  LET starts == Ascending({g[1] : g \in GapSet})
  IN [i \in 1..Len(starts) |-> CHOOSE g \in GapSet : g[1] = starts[i]]

\* A label "<N>m" or "<N>h".
Supported(tf) ==
  /\ Len(tf) >= 2
  /\ Last(tf) \in {"m", "h"}
  /\ \A i \in 1..(Len(tf) - 1) : tf[i] \in Digits

----------------------------------------------------------------------------
(* C1 *)

\* C1: a call that repeats the arguments of the call before it, with the
\* cache as that call left it, issues no page request.  Stated for the case
\* most favourable to the code: the first call returned with every download
\* successful and the exchange holds a candle at every grid timestamp of
\* the range.
C1_RepeatIssuesNoRequest ==
  (req.repeat /\ \A t \in GridOf(req.start_time, req.end_time) :
                   t \in DOMAIN klines /\ klines[t] # 0)
    => (req.pc # "download" /\ req.pages = 0)

----------------------------------------------------------------------------
(* C2 *)

\* C2: the persisted series is strictly increasing by timestamp.
C2_PersistedStrictlyIncreasing ==
  \A i \in 1..(Len(cache_file.rows) - 1) :
    cache_file.rows[i].timestamp < cache_file.rows[i + 1].timestamp

\* A merge has put a fetched row in front of rows the cache already held.
C2_Witness ==
  /\ req.pc = "done" /\ req.path = "gaps" /\ req.writes = 1
  /\ Len(cache_file.rows) >= 3
  /\ \E r \in RowSet(req.fetched) : \E c \in RowSet(req.before.rows) :
       r \in RowSet(cache_file.rows) /\ r.timestamp < c.timestamp

----------------------------------------------------------------------------
(* C3 *)

\* A candle is known for slot t: the exchange holds one at t, or it is
\* missing there and an earlier candle exists, in the cache the request
\* found or on the exchange from start_time on.
Fillable(t) ==
  \/ t \in DOMAIN klines /\ klines[t] # 0
  \/ \E u \in Index(req.before.rows) : u < t
  \/ \E u \in DOMAIN klines : req.start_time <= u /\ u < t /\ klines[u] # 0

\* C3: a call that completes with no failed fetch leaves every grid
\* timestamp of its range that has a record or a prior known candle exactly
\* once in the returned series and in the persisted cache.
C3_GridCompleteAfterSuccess ==
  (req.pc = "done" /\ req.failed = <<>>)
    => \A t \in GridOf(req.start_time, req.end_time) :
         Fillable(t) => CountAt(req.result, t) = 1 /\ CountAt(cache_file.rows, t) = 1

----------------------------------------------------------------------------
(* C4 *)

\* C4: after the merge the cache's timestamps are the union of the cached
\* and the fetched timestamps, and a timestamp in both keeps one row, the
\* fetched one.
C4_MergeIsUnionByTimestamp ==
  (req.pc = "done" /\ req.path = "gaps")
    => /\ Index(cache_file.rows) = Index(req.before.rows) \cup Index(req.fetched)
       /\ \A r \in RowSet(req.fetched) :
            CountAt(cache_file.rows, r.timestamp) = 1 /\ r \in RowSet(cache_file.rows)

----------------------------------------------------------------------------
(* C5 *)

\* C5: when the cache holds every grid timestamp of the requested range the
\* call issues no page request, writes nothing, leaves the file as it was
\* and returns the cached rows stamped within [start, end].
C5_FullHit ==
  (req.pc # "idle" /\ req.before.exists /\ Absent = {})
    => /\ req.pc = "done"
       /\ req.pages = 0 /\ req.writes = 0 /\ req.downloads = <<>>
       /\ cache_file = req.before
       /\ req.result = Within(req.before.rows, req.start_time, req.end_time)

\* A full hit that returns several rows and leaves cached rows out.
C5_Witness ==
  /\ req.pc = "done" /\ req.before.exists /\ Absent = {}
  /\ Len(req.result) >= 2
  /\ Len(req.before.rows) > Len(req.result)

----------------------------------------------------------------------------
(* C6 *)

\* C6: a finished request against an existing cache has called the download
\* once per gap, with the gap's range, and every row it added to the cache
\* is stamped inside a gap.
C6_DownloadsAreTheGaps ==
  (Finished /\ req.before.exists)
    => /\ req.downloads = GapSeq
       /\ \A r \in RowSet(cache_file.rows) \ RowSet(req.before.rows) :
            \E g \in GapSet : g[1] <= r.timestamp /\ r.timestamp <= g[2]

----------------------------------------------------------------------------
(* C7 *)

\* C7: a request with several gaps never ends in an exception, and once it
\* is done every gap has been fetched and the cache written.
C7_SeveralGapsNeverRaise ==
  (req.pc # "idle" /\ req.before.exists /\ Cardinality(GapSet) >= 2)
    => /\ req.pc # "raised"
       /\ req.pc = "done" => (req.downloads = GapSeq /\ req.writes = 1)

----------------------------------------------------------------------------
(* C8 *)

\* C8: no row stamped inside a range whose fetch failed is added to the
\* persisted cache or to the returned series.
C8_FailedRangeUnfetched ==
  \A k \in 1..Len(req.failed) :
    LET a == req.failed[k][1]
        b == req.failed[k][2]
    IN /\ RowSet(Within(cache_file.rows, a, b)) \subseteq RowSet(req.before.rows)
       /\ RowSet(Within(req.result, a, b)) \subseteq RowSet(req.before.rows)

\* A download failed after an earlier page of the same range was accepted.
C8_Witness ==
  /\ req.pc = "done" /\ req.failed # <<>> /\ req.pages >= 2
  /\ req.downloads = req.failed

----------------------------------------------------------------------------
(* C9 *)

\* C9: the returned series is the rows of the cache, as the request leaves
\* it, stamped within [start, end].
C9_ResultIsCacheSlice ==
  req.pc = "done"
    => req.result = Within(cache_file.rows, req.start_time, req.end_time)

\* A gap fetch merged a row, and the cache holds rows outside the range.
C9_Witness ==
  /\ req.pc = "done" /\ req.path = "gaps" /\ req.fetched # <<>>
  /\ Len(req.result) >= 2
  /\ Len(cache_file.rows) > Len(req.result)

----------------------------------------------------------------------------
(* C10 *)

\* C10: under an unsupported label no page request is issued, no cache file
\* is written and no request completes normally.
C10_UnsupportedFailsClosed ==
  ~Supported(timeframe)
    => /\ req.pc \in {"idle", "raised"}
       /\ req.pages = 0
       /\ ~cache_file.exists

----------------------------------------------------------------------------
(* Vocabulary of the properties of the download *)

\* The exchange's candles with a <= open-time <= b, ascending.
KlineRows(a, b) ==
  LET ts == Ascending({t \in DOMAIN klines : klines[t] # 0 /\ a <= t /\ t <= b})
  IN [i \in 1..Len(ts) |-> Row(ts[i], klines[ts[i]])]

\* A download has returned and every page request of the call succeeded.
DownloadSucceeded ==
  req.pc = "done" /\ req.downloads # <<>> /\ req.failed = <<>>

----------------------------------------------------------------------------
(* C11 *)

\* C11: a download whose page requests all succeeded and that accepted no
\* candle returns something other than None, the value a failed download
\* returns.
C11_EmptySuccessIsNotNone ==
  (DownloadSucceeded /\ req.accepted = <<>>) => ~req.returned.none

----------------------------------------------------------------------------
(* C12 *)

\* The rows a finished request fetched and wrote to the cache file.
Persisted(r) == IF r.writes = 0 THEN {} ELSE RowSet(r.fetched) \cap RowSet(r.result)

\* C12: once two requests on the same key have both finished, the cache
\* holds every row either of them fetched and persisted.  Stated for the
\* case where no two of those rows carry equal values, so that a row
\* missing from the cache is missing because a write was overwritten.
C12_NoLostUpdate ==
  (/\ req.pc = "done" /\ req2.pc = "done"
   /\ \A a, b \in Persisted(req) \cup Persisted(req2) : a.ohlcv = b.ohlcv => a = b)
    => (Persisted(req) \cup Persisted(req2)) \subseteq RowSet(cache_file.rows)

----------------------------------------------------------------------------
(* C13 *)

\* C13: for a request whose cache lacks grid timestamps, gap detection
\* returns the maximal runs of consecutive absent grid timestamps, in
\* ascending order.
C13_GapsAreTheMaximalRuns ==
  (req.pc # "idle" /\ req.before.exists /\ Absent # {})
    => (req.pc # "raised" /\ req.gaps = GapSeq)

----------------------------------------------------------------------------
(* C14 *)

\* The page loop stops on this page: it is empty, its last record is later
\* than end, or none of its records is at or before end.
StopsOn(data, end) ==
  \/ data = <<>>
  \/ Last(data).timestamp > end
  \/ \A i \in 1..Len(data) : data[i].timestamp > end

\* One page request of a download: it is at most one more than the
\* exchange has records in the range; if the loop goes on the cursor has
\* grown; the loop ends exactly on a non-200 answer or a stopping page.
C14_PageStep ==
  req.pc = "download" =>
    LET going == req'.pc = "download" /\ req'.downloads = req.downloads
        data == Page(klines, req.current_fetch_start)
    IN /\ req.pages <= Len(KlineRows(req.dl[1], req.dl[2]))
       /\ going => req'.current_fetch_start > req.current_fetch_start
       /\ (req' # req) =>
            (~going <=> (req'.failed # req.failed \/ StopsOn(data, req.dl[2])))

\* C14: the page loop terminates: the cursor strictly increases between
\* successive page requests, the number of page requests is bounded by the
\* number of records in the range, and the loop ends exactly on its stop
\* conditions.
C14_PageLoopTerminates == [][C14_PageStep]_vars

\* A download that went past its first page and then came to an end.
C14_Witness ==
  req.pc = "done" /\ req.pages >= 3 /\ req.failed = <<>>

----------------------------------------------------------------------------
(* C15 *)

\* C15: when every page request succeeds, the accepted records are the
\* exchange's records with start <= open-time <= end, once each, ascending.
C15_AcceptedAreTheRecordsInRange ==
  DownloadSucceeded
    => req.accepted = KlineRows(Last(req.downloads)[1], Last(req.downloads)[2])

\* The accepted records came from more than one page.
C15_Witness ==
  DownloadSucceeded /\ Len(req.accepted) > PageSize /\ req.pages >= 2

----------------------------------------------------------------------------
(* C16 *)

\* C16: in the frame a successful download returns, every accepted record
\* keeps its values, and every grid timestamp of [start, end] with no record
\* and an earlier accepted candle is a row with that candle's values.
C16_ForwardFilledOverTheRange ==
  (DownloadSucceeded /\ ~req.returned.none)
    => LET d == Last(req.downloads)
           got == RowSet(req.returned.rows)
       IN /\ RowSet(req.accepted) \subseteq got
          /\ \A t \in GridOf(d[1], d[2]) :
               \A c \in RowSet(req.accepted) :
                 (/\ c.timestamp < t
                  /\ \A x \in RowSet(req.accepted) :
                       x.timestamp <= t => x.timestamp <= c.timestamp)
                   => Row(t, c.ohlcv) \in got

----------------------------------------------------------------------------
(* C17 *)

\* C17: a request that has gaps writes nothing while its gaps are being
\* fetched, and has written the file exactly once, after one download per
\* gap, when it is finished.
C17_OneWriteAfterAllGaps ==
  (req.pc # "idle" /\ req.before.exists /\ Absent # {})
    => /\ req.pc = "download" => (req.writes = 0 /\ cache_file = req.before)
       /\ Finished => (req.writes = 1 /\ Len(req.downloads) = Cardinality(GapSet))

----------------------------------------------------------------------------
(* C18 *)

\* With no cache file, a failed download leaves no file and an empty
\* result, and the call after it takes the no-cache path; a file that did
\* not exist when the call began exists only after a download that did not
\* fail and returned rows.
C18_Step ==
  /\ (req.pc = "done" /\ req.path = "nocache" /\ req.failed # <<>>)
       => /\ ~cache_file.exists /\ req.writes = 0 /\ req.result = <<>>
          /\ req' # req => req'.path = "nocache"
  /\ (~req.before.exists /\ cache_file.exists)
       => (req.failed = <<>> /\ req.fetched # <<>>)

\* C18: a cache entry is created only by a successful fetch.
C18_CreatedOnlyBySuccess == [][C18_Step]_vars

\* A first download failed after it had accepted candles; no file exists.
C18_Witness ==
  /\ req.pc = "done" /\ req.path = "nocache" /\ req.failed # <<>>
  /\ req.accepted # <<>> /\ ~cache_file.exists

----------------------------------------------------------------------------
(* C19 *)

\* C19: every row the cache held when a call began is still in it.
C19_CacheOnlyGrows ==
  /\ req.before.exists => cache_file.exists
  /\ RowSet(req.before.rows) \subseteq RowSet(cache_file.rows)

====
